---- MODULE Spec2Model ----
(***************************************************************************)
(* Model of the RefOS process server's global state and helper primitives  *)
(* (impl/apps/process_server/src/state.c).                                 *)
(*                                                                         *)
(* The server dispatches one request to completion before the next, so     *)
(* every primitive is one atomic action.  What the seL4 libraries may      *)
(* answer (an allocation error, a failed mint, a failed mapping, ...) is   *)
(* an input of the action, drawn with \E.  The record ret holds what the   *)
(* last call was given, what it returned and, in order, the library and    *)
(* kernel calls it issued.                                                 *)
(*                                                                         *)
(* The capability primitives and the frame transfers share no state:      *)
(* SpecCaps and SpecFrames run each group alone, Spec runs them together.  *)
(* SpecBoot runs initialise() one statement per step, followed by calls of *)
(* faketime and procserv_flush.  SpecIrqRace drops run-to-completion for   *)
(* get_irq_handler and interleaves two calls between their statements.     *)
(***************************************************************************)
EXTENDS Integers, Sequences, FiniteSets, TLC

(* ------------------------------ bounds --------------------------------- *)

\* Number of capability slots of the server's cspace that the model tracks.
NumSlots == 4

\* Bytes in a frame.  The program's REFOS_PAGE_SIZE is 4096; the model keeps
\* the arithmetic and scales the size of the page.
REFOS_PAGE_SIZE == 3

\* Width of size_t in bits.  The program's is the machine word (32); TLC's
\* integers are 32 bit signed, so the model wraps at a narrower word.
SIZE_BITS == 16

\* Width of the faketime counter in bits.  The program's is 32 (uint32_t);
\* the model wraps at a narrower counter.
FAKETIME_BITS == 3

(* ------------------------- program constants --------------------------- *)

\* for (int i = 0; i < 32; i++)
INT_BITS == 32

\* The smallest int, 0x80000000.
INT_MIN == (-2147483647) - 1

INT_MAX == 2147483647

SIZE_MOD == 2 ^ SIZE_BITS

SIZE_MAX == SIZE_MOD - 1

FAKETIME_MOD == 2 ^ FAKETIME_BITS

\* The slot of procServ.endpoint and of procServ.IPCCapRecv, allocated at boot.
endpoint == 1

IPCCapRecv == 2

(* ----------------------------- domains --------------------------------- *)

Slots == 1 .. NumSlots

\* The badges, IRQ lines and device addresses callers ask for.
Badges == {7, 8}

IRQs == {0, 1}

PAddrs == {1}

\* Values of the int parameter size of procserv_find_device.
Sizes == {INT_MIN, -1, 0, 1, 2, 100, 1073741824, INT_MAX}

\* Frame capabilities a caller passes (0: the null capability).
Frames == {5}

NoCap == [t |-> "none"]

\* A faulty variant: the minted capability keeps every right of the source.
EpCap_all_rights(badge) ==
    [t |-> "endpoint", src |-> endpoint, rights |-> {"grant", "write", "read"},
     badge |-> badge]

\* vka_cnode_mint(&path, &pathSrc, seL4_CanGrant | seL4_CanWrite,
\* seL4_CapData_Badge_new(badge)): the capability the mint leaves in the slot.
EpCap(badge) ==
    [t |-> "endpoint", src |-> endpoint, rights |-> {"grant", "write"}, badge |-> badge]

FrameCap(paddr, sizeBits) == [t |-> "frame", paddr |-> paddr, sizeBits |-> sizeBits]

IrqCap(irq) == [t |-> "irq", irq |-> irq]

VARIABLES
    vkaSlots,        \* procServ.vka: the slots the allocator has handed out
    cspace,          \* the capability in each slot
    callerHeld,      \* slots returned to a caller and not yet released
    irqHandlerList,  \* procServ.irqHandlerList: irq -> handler slot, 0 absent
    frameMem,        \* contents of each physical frame
    vspaceMapped,    \* frames mapped in procServ.vspace
    archArm,         \* built with CONFIG_ARCH_ARM
    faulted,         \* the server thread took a fault
    ret,             \* the last call: arguments, result, calls issued
    boot,            \* initialise(): next step, steps completed, failed call
    unblockClientFaultPID,  \* procServ.unblockClientFaultPID
    procServ_faketime,      \* procServ.faketime
    thr              \* get_irq_handler calls in progress, one per thread

vars ==
    <<vkaSlots, cspace, callerHeld, irqHandlerList, frameMem, vspaceMapped,
      archArm, faulted, ret, boot, unblockClientFaultPID, procServ_faketime,
      thr>>

sysVars == <<boot, unblockClientFaultPID, procServ_faketime, thr>>

capVars == <<vkaSlots, cspace, callerHeld, irqHandlerList>>

frameVars == <<frameMem, vspaceMapped, faulted>>

\* The record of a call.  env, what the libraries and the kernel answered to
\* it, is filled in by the action that makes the call.
Ret(op, args, val, err, trace) ==
    [op |-> op, args |-> args, val |-> val, err |-> err, trace |-> trace,
     dst |-> <<>>, env |-> <<>>]

WithEnv(r, env) == [r EXCEPT !.env = env]

\* Number of times call f occurs in a trace.
Count(trace, f) == Cardinality({i \in DOMAIN trace : trace[i] = f})

(* --------------------------- the allocator ----------------------------- *)

\* vka_cspace_alloc_path: an error (0), or a slot that is not allocated.
AllocOutcomes(alloc) == {0} \cup (Slots \ alloc)

vka_cspace_free(alloc, slot) == alloc \ {slot}

\* Whether the call that fills the slot (mint, device lookup, IRQ request)
\* fails; it is not made when no slot was allocated.
StepOutcomes(slot) == IF slot = 0 THEN {FALSE} ELSE BOOLEAN

\* The threads of the interleaved specification, and a thread that is in no
\* call.
Threads == {1, 2}

IdleCall ==
    [pc |-> "idle", irq |-> 0, slot |-> 0, val |-> 0, trace |-> <<>>,
     miss |-> FALSE]

(* ----------------------------- the cache ------------------------------- *)

chash_get(table, key) == table[key]

chash_set(table, key, item) == [table EXCEPT ![key] = item]

(* ------------------------------- boot ---------------------------------- *)

\* A faulty variant: the IRQ cache is initialised before the modules.
BootOrder_cache_first ==
    <<"memset", "bootstrap_use_bootinfo", "allocman_make_vka",
      "sel4utils_bootstrap_vspace", "vspace_reserve_range",
      "bootstrap_configure_virtual_pool", "simple_default_init_bootinfo",
      "platsupport_serial_setup_simple", "initialise_welcome_message",
      "vka_alloc_endpoint", "vka_cspace_alloc_path", "chash_init",
      "initialise_modules", "unblockClientFaultPID">>

\* The statements of initialise_allocator and initialise, in program order.
BootOrder ==
    <<"memset", "bootstrap_use_bootinfo", "allocman_make_vka",
      "sel4utils_bootstrap_vspace", "vspace_reserve_range",
      "bootstrap_configure_virtual_pool", "simple_default_init_bootinfo",
      "platsupport_serial_setup_simple", "initialise_welcome_message",
      "vka_alloc_endpoint", "vka_cspace_alloc_path", "initialise_modules",
      "chash_init", "unblockClientFaultPID">>

\* The calls of the boot sequence that can fail.
BootFallible ==
    {"bootstrap_use_bootinfo", "sel4utils_bootstrap_vspace",
     "vspace_reserve_range", "vka_alloc_endpoint", "vka_cspace_alloc_path"}

\* The step after the k-th, "running" after the last.
BootAfter(k) == IF k < Len(BootOrder) THEN BootOrder[k + 1] ELSE "running"

\* A faulty variant: a failed reservation is not noticed.
reservation_failed_unchecked(failed) == FALSE

\* if (virtual_reservation.res == 0) ZF_LOGF(...): the fatal path.
reservation_failed(failed) == failed

\* assert(s->allocman), assert(!error): the process aborts when they fail.
assert_failed(failed) == failed

\* Whether step, whose call failed or not, ends the process.
BootAborts(step, failed) ==
    IF step = "vspace_reserve_range" THEN reservation_failed(failed)
    ELSE assert_failed(failed)

\* The state before initialise() runs: procServ lies in zeroed memory.
BootInit ==
    /\ vkaSlots = {}
    /\ cspace = [s \in Slots |-> NoCap]
    /\ callerHeld = {}
    /\ irqHandlerList = [i \in IRQs |-> 0]
    /\ frameMem = [f \in Frames |-> [i \in 0 .. REFOS_PAGE_SIZE - 1 |-> 0]]
    /\ vspaceMapped = {}
    /\ archArm \in BOOLEAN
    /\ faulted = FALSE
    /\ ret = Ret("initialise", <<>>, 0, "none", <<>>)
    /\ boot = [pc |-> BootOrder[1], log |-> <<>>, failed |-> "none"]
    /\ unblockClientFaultPID = "ZERO"
    /\ procServ_faketime = 0
    /\ thr = [t \in Threads |-> IdleCall]

\* One statement of the boot sequence.  A call that fails ends the process
\* in the fatal state; otherwise the statement completes and is logged.
BootStep ==
    /\ boot.pc \notin {"running", "fatal"}
    /\ \E failed \in (IF boot.pc \in BootFallible THEN BOOLEAN ELSE {FALSE}) :
          IF BootAborts(boot.pc, failed)
          THEN /\ boot' = [boot EXCEPT !.pc = "fatal", !.failed = boot.pc]
               /\ UNCHANGED <<vkaSlots, cspace, irqHandlerList,
                              unblockClientFaultPID>>
          ELSE /\ boot' = [pc |-> BootAfter(Len(boot.log) + 1),
                           log |-> Append(boot.log, boot.pc),
                           failed |-> IF failed THEN boot.pc ELSE boot.failed]
               /\ vkaSlots' =
                     IF boot.pc = "vka_alloc_endpoint"
                     THEN vkaSlots \cup {endpoint}
                     ELSE IF boot.pc = "vka_cspace_alloc_path"
                     THEN vkaSlots \cup {IPCCapRecv}
                     ELSE vkaSlots
               /\ cspace' =
                     IF boot.pc = "vka_alloc_endpoint"
                     THEN [cspace EXCEPT ![endpoint] = [t |-> "endpoint_object"]]
                     ELSE cspace
               /\ irqHandlerList' =
                     IF boot.pc = "chash_init" THEN [i \in IRQs |-> 0]
                     ELSE irqHandlerList
               /\ unblockClientFaultPID' =
                     IF boot.pc = "memset" THEN "ZERO"
                     ELSE IF boot.pc = "unblockClientFaultPID" THEN "PID_NULL"
                     ELSE unblockClientFaultPID
    /\ UNCHANGED <<callerHeld, frameVars, archArm, ret, procServ_faketime, thr>>

\* The state initialise() leaves when every call succeeded.
Init ==
    /\ boot = [pc |-> "running", log |-> BootOrder, failed |-> "none"]
    /\ unblockClientFaultPID = "PID_NULL"
    /\ procServ_faketime = 0
    /\ thr = [t \in Threads |-> IdleCall]
    /\ vkaSlots = {endpoint, IPCCapRecv}
    /\ cspace = [s \in Slots |->
                    IF s = endpoint THEN [t |-> "endpoint_object"] ELSE NoCap]
    /\ callerHeld = {}
    /\ irqHandlerList = [i \in IRQs |-> 0]
    /\ frameMem = [f \in Frames |-> [i \in 0 .. REFOS_PAGE_SIZE - 1 |-> 0]]
    /\ vspaceMapped = {}
    /\ archArm \in BOOLEAN
    /\ faulted = FALSE
    /\ ret = Ret("initialise", <<>>, 0, "none", <<>>)

(* ---------------------------- mint_badge ------------------------------- *)

\* A faulty variant: the error path forgets vka_cspace_free.
mint_badge_mint_failed_leak(alloc, slot) == [vka |-> alloc, val |-> 0]

\* A faulty variant: the error path frees the slot and still returns its path.
mint_badge_mint_failed_dangling(alloc, slot) ==
    [vka |-> vka_cspace_free(alloc, slot), val |-> slot]

\* if (error) after vka_cnode_mint: the slot is freed, the path zeroed.
mint_badge_mint_failed(alloc, slot) ==
    [vka |-> vka_cspace_free(alloc, slot), val |-> 0]

\* The server state and result after procserv_mint_badge(badge), when the
\* allocator answers slot (0: error) and the mint answers mintErr.
procserv_mint_badge_run(badge, slot, mintErr) ==
    IF slot = 0
    THEN [vka |-> vkaSlots, cs |-> cspace,
          ret |-> Ret("mint_badge", <<badge>>, 0, "alloc",
                      <<"vka_cspace_alloc_path">>)]
    ELSE IF mintErr
    THEN LET e == mint_badge_mint_failed(vkaSlots \cup {slot}, slot) IN
         [vka |-> e.vka, cs |-> cspace,
          ret |-> Ret("mint_badge", <<badge>>, e.val, "mint",
                      <<"vka_cspace_alloc_path", "vka_cnode_mint",
                        "vka_cspace_free">>)]
    ELSE [vka |-> vkaSlots \cup {slot},
          cs |-> [cspace EXCEPT ![slot] = EpCap(badge)],
          ret |-> Ret("mint_badge", <<badge>>, slot, "none",
                      <<"vka_cspace_alloc_path", "vka_cnode_mint">>)]

procserv_mint_badge ==
    /\ ~faulted
    /\ \E badge \in Badges, slot \in AllocOutcomes(vkaSlots) :
       \E mintErr \in StepOutcomes(slot) :
          LET r == procserv_mint_badge_run(badge, slot, mintErr) IN
          /\ vkaSlots' = r.vka
          /\ cspace' = r.cs
          /\ ret' = WithEnv(r.ret, [slot |-> slot, err |-> mintErr])
          /\ callerHeld' = IF r.ret.val # 0 THEN callerHeld \cup {r.ret.val}
                           ELSE callerHeld
    /\ UNCHANGED <<irqHandlerList, frameVars, archArm, sysVars>>

(* ---------------------------- find_device ------------------------------ *)

\* (1 << i) == size.  1 << 31 overflows int, which C leaves undefined: the
\* shift instruction gives INT_MIN (wraps), and a build that reasons from the
\* absence of overflow compares unequal.
ShiftEquals(i, size, wraps) ==
    IF i < INT_BITS - 1 THEN 2 ^ i = size ELSE wraps /\ size = INT_MIN

\* The two outcomes differ only for the size INT_MIN.
ShiftOutcomes(size) == IF size = INT_MIN THEN BOOLEAN ELSE {TRUE}

\* The loop of lines 233-239: the first i in 0..31 with (1 << i) == size, or -1.
SizeBits(size, wraps) ==
    LET hits == {i \in 0 .. INT_BITS - 1 : ShiftEquals(i, size, wraps)} IN
    IF hits = {} THEN -1 ELSE CHOOSE i \in hits : \A j \in hits : i <= j

\* if (error) after simple_get_frame_cap: the slot is freed, capPtr zeroed.
find_device_lookup_failed(alloc, slot) ==
    [vka |-> vka_cspace_free(alloc, slot), val |-> 0]

procserv_find_device_run(paddr, size, wraps, slot, lookupErr) ==
    LET sizeBits == SizeBits(size, wraps) IN
    IF sizeBits = -1
    THEN [vka |-> vkaSlots, cs |-> cspace,
          ret |-> Ret("find_device", <<paddr, size>>, 0, "param", <<>>)]
    ELSE IF slot = 0
    THEN [vka |-> vkaSlots, cs |-> cspace,
          ret |-> Ret("find_device", <<paddr, size>>, 0, "alloc",
                      <<"vka_cspace_alloc_path">>)]
    ELSE IF lookupErr
    THEN LET e == find_device_lookup_failed(vkaSlots \cup {slot}, slot) IN
         [vka |-> e.vka, cs |-> cspace,
          ret |-> Ret("find_device", <<paddr, size>>, e.val, "lookup",
                      <<"vka_cspace_alloc_path", "simple_get_frame_cap",
                        "vka_cspace_free">>)]
    ELSE [vka |-> vkaSlots \cup {slot},
          cs |-> [cspace EXCEPT ![slot] = FrameCap(paddr, sizeBits)],
          ret |-> Ret("find_device", <<paddr, size>>, slot, "none",
                      <<"vka_cspace_alloc_path", "simple_get_frame_cap">>)]

procserv_find_device ==
    /\ ~faulted
    /\ \E paddr \in PAddrs, size \in Sizes, slot \in AllocOutcomes(vkaSlots) :
       \E wraps \in ShiftOutcomes(size), lookupErr \in StepOutcomes(slot) :
          LET r == procserv_find_device_run(paddr, size, wraps, slot, lookupErr) IN
          /\ vkaSlots' = r.vka
          /\ cspace' = r.cs
          /\ ret' = WithEnv(r.ret, [slot |-> slot, err |-> lookupErr,
                                    wraps |-> wraps])
          /\ callerHeld' = IF r.ret.val # 0 THEN callerHeld \cup {r.ret.val}
                           ELSE callerHeld
    /\ UNCHANGED <<irqHandlerList, frameVars, archArm, sysVars>>

(* -------------------------- get_irq_handler ---------------------------- *)

\* A faulty variant: the error path forgets vka_cspace_free.
get_irq_handler_request_failed_leak(alloc, slot) == [vka |-> alloc, val |-> 0]

\* if (error) after seL4_IRQControl_Get: the slot is freed, 0 returned.
get_irq_handler_request_failed(alloc, slot) ==
    [vka |-> vka_cspace_free(alloc, slot), val |-> 0]

\* A faulty variant: the cache is not consulted.
existingHandlerOf_ignored(irq) == 0

\* The handler already made for this IRQ, 0 when there is none.
existingHandlerOf(irq) == chash_get(irqHandlerList, irq)

\* A faulty variant: storing a handler drops the handlers of the other lines.
StoreHandler_evicting(irq, slot) == [i \in IRQs |-> IF i = irq THEN slot ELSE 0]

\* The cache after the handler in slot was made for irq.
StoreHandler(irq, slot) == chash_set(irqHandlerList, irq, slot)

\* A faulty variant: the handler is stored before the request is checked.
procserv_get_irq_handler_run_store_first(irq, slot, irqErr) ==
    LET existingHandler == existingHandlerOf(irq) IN
    IF existingHandler # 0
    THEN [vka |-> vkaSlots, cs |-> cspace, irqs |-> irqHandlerList,
          ret |-> Ret("get_irq_handler", <<irq>>, existingHandler, "none",
                      <<"chash_get">>)]
    ELSE IF slot = 0
    THEN [vka |-> vkaSlots, cs |-> cspace, irqs |-> irqHandlerList,
          ret |-> Ret("get_irq_handler", <<irq>>, 0, "alloc",
                      <<"chash_get", "vka_cspace_alloc_path">>)]
    ELSE IF irqErr
    THEN LET e == get_irq_handler_request_failed(vkaSlots \cup {slot}, slot) IN
         [vka |-> e.vka, cs |-> cspace, irqs |-> StoreHandler(irq, slot),
          ret |-> Ret("get_irq_handler", <<irq>>, e.val, "irq",
                      <<"chash_get", "vka_cspace_alloc_path",
                        "seL4_IRQControl_Get", "chash_set",
                        "vka_cspace_free">>)]
    ELSE [vka |-> vkaSlots \cup {slot},
          cs |-> [cspace EXCEPT ![slot] = IrqCap(irq)],
          irqs |-> StoreHandler(irq, slot),
          ret |-> Ret("get_irq_handler", <<irq>>, slot, "none",
                      <<"chash_get", "vka_cspace_alloc_path",
                        "seL4_IRQControl_Get", "chash_set">>)]

\* procserv_get_irq_handler(irq), when the allocator answers slot (0: error)
\* and the kernel answers irqErr to the request.
procserv_get_irq_handler_run(irq, slot, irqErr) ==
    LET existingHandler == existingHandlerOf(irq) IN
    IF existingHandler # 0
    THEN [vka |-> vkaSlots, cs |-> cspace, irqs |-> irqHandlerList,
          ret |-> Ret("get_irq_handler", <<irq>>, existingHandler, "none",
                      <<"chash_get">>)]
    ELSE IF slot = 0
    THEN [vka |-> vkaSlots, cs |-> cspace, irqs |-> irqHandlerList,
          ret |-> Ret("get_irq_handler", <<irq>>, 0, "alloc",
                      <<"chash_get", "vka_cspace_alloc_path">>)]
    ELSE IF irqErr
    THEN LET e == get_irq_handler_request_failed(vkaSlots \cup {slot}, slot) IN
         [vka |-> e.vka, cs |-> cspace, irqs |-> irqHandlerList,
          ret |-> Ret("get_irq_handler", <<irq>>, e.val, "irq",
                      <<"chash_get", "vka_cspace_alloc_path",
                        "seL4_IRQControl_Get", "vka_cspace_free">>)]
    ELSE [vka |-> vkaSlots \cup {slot},
          cs |-> [cspace EXCEPT ![slot] = IrqCap(irq)],
          irqs |-> StoreHandler(irq, slot),
          ret |-> Ret("get_irq_handler", <<irq>>, slot, "none",
                      <<"chash_get", "vka_cspace_alloc_path",
                        "seL4_IRQControl_Get", "chash_set">>)]

procserv_get_irq_handler ==
    /\ ~faulted
    /\ \E irq \in IRQs, slot \in AllocOutcomes(vkaSlots) :
       \E irqErr \in StepOutcomes(slot) :
          LET r == procserv_get_irq_handler_run(irq, slot, irqErr) IN
          /\ vkaSlots' = r.vka
          /\ cspace' = r.cs
          /\ irqHandlerList' = r.irqs
          /\ ret' = WithEnv(r.ret, [slot |-> slot, err |-> irqErr])
    /\ UNCHANGED <<callerHeld, frameVars, archArm, sysVars>>

(* ------------------------------ free_cap ------------------------------- *)

\* A faulty variant: the capability is revoked before it is deleted.
procserv_nameserv_callback_free_cap_run_revoking(cap) ==
    IF cap = 0
    THEN [vka |-> vkaSlots, cs |-> cspace,
          ret |-> Ret("free_cap", <<cap>>, 0, "null", <<>>)]
    ELSE [vka |-> vka_cspace_free(vkaSlots, cap),
          cs |-> [cspace EXCEPT ![cap] = NoCap],
          ret |-> Ret("free_cap", <<cap>>, 0, "none",
                      <<"vka_cnode_revoke", "vka_cnode_delete",
                        "vka_cspace_free">>)]

\* procserv_nameserv_callback_free_cap(cap): a null cap returns at once;
\* otherwise the capability in the slot is deleted and the slot freed.
procserv_nameserv_callback_free_cap_run(cap) ==
    IF cap = 0
    THEN [vka |-> vkaSlots, cs |-> cspace,
          ret |-> Ret("free_cap", <<cap>>, 0, "null", <<>>)]
    ELSE [vka |-> vka_cspace_free(vkaSlots, cap),
          cs |-> [cspace EXCEPT ![cap] = NoCap],
          ret |-> Ret("free_cap", <<cap>>, 0, "none",
                      <<"vka_cnode_delete", "vka_cspace_free">>)]

\* The name server releases a capability it was given, or a null one.
procserv_nameserv_callback_free_cap ==
    /\ ~faulted
    /\ \E cap \in {0} \cup callerHeld :
          LET r == procserv_nameserv_callback_free_cap_run(cap) IN
          /\ vkaSlots' = r.vka
          /\ cspace' = r.cs
          /\ ret' = r.ret
          /\ callerHeld' = callerHeld \ {cap}
    /\ UNCHANGED <<irqHandlerList, frameVars, archArm, sysVars>>

NextCaps ==
    \/ procserv_mint_badge
    \/ procserv_find_device
    \/ procserv_get_irq_handler
    \/ procserv_nameserv_callback_free_cap

SpecCaps == Init /\ [][NextCaps]_vars

(* --------------------------- frame transfer ---------------------------- *)

\* offset + len in size_t: unsigned, modulo 2^SIZE_BITS.
SizeAdd(a, b) == (a + b) % SIZE_MOD

\* Byte i (from 0) of the caller's buffer src.
SrcByte(src, i) == IF src = "ones" THEN 1 ELSE (i + 1) % 2

\* The first len bytes of the caller's buffer, as a sequence.
SrcData(src, len) == [k \in 1 .. len |-> SrcByte(src, k - 1)]

\* vspace_map_pages: the address of the new mapping, NULL when it fails.
MapResult(mapErr) == IF mapErr THEN "NULL" ELSE "addr"

\* A faulty variant: the result of vspace_map_pages is not checked.
AddrIsNull_unchecked(addr) == FALSE

\* if (!addr)
AddrIsNull(addr) == addr = "NULL"

vspace_map_pages(mapped, frame) == mapped \cup {frame}

\* A faulty variant: the mapping is not torn down.
vspace_unmap_pages_skipped(mapped, frame) == mapped

vspace_unmap_pages(mapped, frame) == mapped \ {frame}

\* A pointer to a list of frame capabilities, and the null pointer.
ListPtr(list) == [null |-> FALSE, at |-> list]

NullList == [null |-> TRUE, at |-> <<>>]

\* seL4_ARM_Page_Unify_Instruction(frame[i], 0, REFOS_PAGE_SIZE)
Unify(f) == [frame |-> f, start |-> 0, end |-> REFOS_PAGE_SIZE]

\* A faulty variant: null entries of the list are not skipped.
procserv_flush_unfiltered(frame, nFrames) ==
    IF ~archArm THEN <<>>
    ELSE IF frame.null THEN <<>>
    ELSE [i \in 1 .. nFrames |-> Unify(frame.at[i])]

\* procserv_flush(frame, nFrames): the cache operations issued, in order.
\* The body is compiled to nothing without CONFIG_ARCH_ARM; with it, a null
\* list returns at once and null entries are skipped.
procserv_flush(frame, nFrames) ==
    IF ~archArm THEN <<>>
    ELSE IF frame.null THEN <<>>
    ELSE LET entries == SelectSeq(SubSeq(frame.at, 1, nFrames),
                                  LAMBDA f : f # 0)
         IN  [i \in 1 .. Len(entries) |-> Unify(entries[i])]

\* The call of procserv_flush and the kernel calls it issues.
FlushTrace(frame, nFrames) ==
    <<"procserv_flush">> \o
    [i \in 1 .. Len(procserv_flush(frame, nFrames)) |->
        "seL4_ARM_Page_Unify_Instruction"]

\* The calls of a write that maps and copies within the page, in order.
frame_write_calls(frame) ==
    <<"vspace_map_pages", "memcpy">> \o FlushTrace(ListPtr(<<frame>>), 1)
        \o <<"vspace_unmap_pages">>

\* A faulty variant: the read copies before the caches are synchronized.
frame_read_calls_copy_first(frame) ==
    <<"vspace_map_pages", "memcpy">> \o FlushTrace(ListPtr(<<frame>>), 1)
        \o <<"vspace_unmap_pages">>

\* The calls of a read that maps and copies within the page, in order.
frame_read_calls(frame) ==
    <<"vspace_map_pages">> \o FlushTrace(ListPtr(<<frame>>), 1)
        \o <<"memcpy", "vspace_unmap_pages">>

\* A faulty variant: the copy ignores offset.
CopyIn_at_zero(page, src, len, offset) ==
    [i \in 0 .. REFOS_PAGE_SIZE - 1 |->
        IF i < len THEN SrcByte(src, i) ELSE page[i]]

\* memcpy(addr + offset, src, len) into the mapped page: byte k of src lands
\* at address offset + k (modulo the word), inside the page when that is
\* below REFOS_PAGE_SIZE.
CopyIn(page, src, len, offset) ==
    [i \in 0 .. REFOS_PAGE_SIZE - 1 |->
        LET k == (i - offset) % SIZE_MOD IN
        IF k < len THEN SrcByte(src, k) ELSE page[i]]

\* memcpy(dst, addr + offset, len) out of the mapped page (within the page).
CopyOut(page, len, offset) == [k \in 1 .. len |-> page[offset + k - 1]]

\* The copy stays inside the mapped page.
InPage(len, offset) == offset + len <= REFOS_PAGE_SIZE

\* procserv_frame_write(frame, src, len, offset).  mapErr: vspace_map_pages
\* returns NULL.  A copy that leaves the mapped page is undefined: it faults
\* (fault), or it lands in whatever memory surrounds the mapping.
procserv_frame_write_run(frame, src, len, offset, mapErr, fault) ==
    LET args == <<frame, src, len, offset>> IN
    IF SizeAdd(offset, len) > REFOS_PAGE_SIZE
    THEN [mem |-> frameMem, mapped |-> vspaceMapped, faulted |-> FALSE,
          ret |-> Ret("frame_write", args, "EINVALIDPARAM", "param", <<>>)]
    ELSE IF AddrIsNull(MapResult(mapErr))
    THEN [mem |-> frameMem, mapped |-> vspaceMapped, faulted |-> FALSE,
          ret |-> Ret("frame_write", args, "ENOMEM", "map",
                      <<"vspace_map_pages">>)]
    ELSE IF ~InPage(len, offset) /\ fault
    THEN [mem |-> frameMem, mapped |-> vspace_map_pages(vspaceMapped, frame),
          faulted |-> TRUE,
          ret |-> Ret("frame_write", args, "FAULT", "fault",
                      <<"vspace_map_pages", "memcpy">>)]
    ELSE [mem |-> [frameMem EXCEPT ![frame] = CopyIn(@, src, len, offset)],
          mapped |-> vspace_unmap_pages(vspace_map_pages(vspaceMapped, frame),
                                        frame),
          faulted |-> FALSE,
          ret |-> Ret("frame_write", args, "ESUCCESS",
                      IF InPage(len, offset) THEN "none" ELSE "stray",
                      frame_write_calls(frame))]

\* procserv_frame_read(frame, dst, len, offset).  A copy that leaves the
\* mapped page faults or fills dst with whatever lies there (dst not modelled).
procserv_frame_read_run(frame, len, offset, mapErr, fault) ==
    LET args == <<frame, "dst", len, offset>> IN
    IF SizeAdd(offset, len) > REFOS_PAGE_SIZE
    THEN [mapped |-> vspaceMapped, faulted |-> FALSE,
          ret |-> Ret("frame_read", args, "EINVALIDPARAM", "param", <<>>)]
    ELSE IF AddrIsNull(MapResult(mapErr))
    THEN [mapped |-> vspaceMapped, faulted |-> FALSE,
          ret |-> Ret("frame_read", args, "ENOMEM", "map",
                      <<"vspace_map_pages">>)]
    ELSE IF ~InPage(len, offset) /\ fault
    THEN [mapped |-> vspace_map_pages(vspaceMapped, frame), faulted |-> TRUE,
          ret |-> Ret("frame_read", args, "FAULT", "fault",
                      <<"vspace_map_pages">>
                          \o FlushTrace(ListPtr(<<frame>>), 1)
                          \o <<"memcpy">>)]
    ELSE [mapped |-> vspace_unmap_pages(vspace_map_pages(vspaceMapped, frame),
                                        frame),
          faulted |-> FALSE,
          ret |-> [Ret("frame_read", args, "ESUCCESS",
                       IF InPage(len, offset) THEN "none" ELSE "stray",
                       frame_read_calls(frame))
                   EXCEPT !.dst = IF InPage(len, offset)
                                  THEN CopyOut(frameMem[frame], len, offset)
                                  ELSE <<>>]]

\* Arguments callers pass.  The kernel refuses to map the null capability.
Srcs == {"ones", "alt"}

Lens == {0, 1, 2, REFOS_PAGE_SIZE, SIZE_MAX}

Offsets == {0, 1, REFOS_PAGE_SIZE - 1, REFOS_PAGE_SIZE, SIZE_MAX}

\* Whether vspace_map_pages fails, where the call reaches it.
MapOutcomes(frame, len, offset) ==
    IF SizeAdd(offset, len) > REFOS_PAGE_SIZE THEN {FALSE}
    ELSE IF frame = 0 THEN {TRUE}
    ELSE BOOLEAN

\* Whether the copy faults, where it leaves the mapped page.
CopyOutcomes(len, offset) == IF InPage(len, offset) THEN {FALSE} ELSE BOOLEAN

procserv_frame_write ==
    /\ ~faulted
    /\ \E frame \in Frames \cup {0}, src \in Srcs, len \in Lens, offset \in Offsets :
          \E mapErr \in MapOutcomes(frame, len, offset),
             fault \in CopyOutcomes(len, offset) :
             LET r == procserv_frame_write_run(frame, src, len, offset,
                                               mapErr, fault) IN
             /\ frameMem' = r.mem
             /\ vspaceMapped' = r.mapped
             /\ faulted' = r.faulted
             /\ ret' = WithEnv(r.ret, [mapErr |-> mapErr, fault |-> fault])
    /\ UNCHANGED <<capVars, archArm, sysVars>>

procserv_frame_read ==
    /\ ~faulted
    /\ \E frame \in Frames \cup {0}, len \in Lens, offset \in Offsets :
          \E mapErr \in MapOutcomes(frame, len, offset),
             fault \in CopyOutcomes(len, offset) :
             LET r == procserv_frame_read_run(frame, len, offset, mapErr,
                                              fault) IN
             /\ vspaceMapped' = r.mapped
             /\ faulted' = r.faulted
             /\ ret' = WithEnv(r.ret, [mapErr |-> mapErr, fault |-> fault])
    /\ UNCHANGED <<capVars, frameMem, archArm, sysVars>>

NextFrames ==
    \/ procserv_frame_write
    \/ procserv_frame_read

SpecFrames == Init /\ [][NextFrames]_vars

(* ------------------------ faketime, flush_frames ----------------------- *)

\* procServ.faketime++ in a uint32_t: the counter wraps.
faketime_incr(t) == (t + 1) % FAKETIME_MOD

\* uint32_t faketime(): returns the counter, then increments it.
faketime ==
    /\ boot.pc = "running"
    /\ ~faulted
    /\ ret' = Ret("faketime", <<>>, procServ_faketime, "none", <<>>)
    /\ procServ_faketime' = faketime_incr(procServ_faketime)
    /\ UNCHANGED <<capVars, frameVars, archArm, boot, unblockClientFaultPID,
                   thr>>

\* The lists callers pass to procserv_flush: null, empty, with null entries.
FrameLists ==
    {NullList} \cup
    {ListPtr(l) : l \in {<<>>, <<0>>, <<5>>, <<0, 5>>, <<5, 0>>, <<5, 5>>,
                         <<0, 0>>}}

\* The counts a caller passes with a list: no more than its entries, any
\* count with the null list.
FrameCounts(frame) == IF frame.null THEN 0 .. 2 ELSE 0 .. Len(frame.at)

\* A call of procserv_flush(frame, nFrames) from outside this file.
flush_frames ==
    /\ boot.pc = "running"
    /\ ~faulted
    /\ \E frame \in FrameLists :
       \E nFrames \in FrameCounts(frame) :
          ret' = Ret("flush_frames", <<frame, nFrames>>,
                     procserv_flush(frame, nFrames), "none",
                     FlushTrace(frame, nFrames))
    /\ UNCHANGED <<capVars, frameVars, archArm, sysVars>>

(* ------------- get_irq_handler, one statement at a time ---------------- *)

\* The calls of get_irq_handler of two threads, interleaved between the
\* statements: thr[t] is the call thread t is in, with its local variables
\* and with miss, whether the cache held no handler when t looked.

\* Lines 285-288: the lookup and the early return.
get_irq_handler_lookup_step(c, irq) ==
    LET existingHandler == existingHandlerOf(irq) IN
    [c EXCEPT !.pc = IF existingHandler # 0 THEN "done" ELSE "alloc",
              !.irq = irq, !.val = existingHandler,
              !.trace = <<"chash_get">>]

\* A faulty variant: the cache is consulted again before a slot is taken.
get_irq_handler_alloc_step_recheck(c, slot) ==
    IF existingHandlerOf(c.irq) # 0
    THEN [c EXCEPT !.pc = "done", !.val = existingHandlerOf(c.irq),
                   !.trace = Append(@, "chash_get")]
    ELSE IF slot = 0
    THEN [c EXCEPT !.pc = "done", !.val = 0,
                   !.trace = Append(@, "vka_cspace_alloc_path")]
    ELSE [c EXCEPT !.pc = "request", !.slot = slot,
                   !.trace = Append(@, "vka_cspace_alloc_path")]

\* Lines 291-296: the slot allocation.
get_irq_handler_alloc_step(c, slot) ==
    IF slot = 0
    THEN [c EXCEPT !.pc = "done", !.val = 0,
                   !.trace = Append(@, "vka_cspace_alloc_path")]
    ELSE [c EXCEPT !.pc = "request", !.slot = slot,
                   !.trace = Append(@, "vka_cspace_alloc_path")]

\* Lines 299-305: the kernel request.
get_irq_handler_request_step(c, irqErr) ==
    IF irqErr
    THEN [c EXCEPT !.pc = "done", !.val = 0,
                   !.trace = @ \o <<"seL4_IRQControl_Get", "vka_cspace_free">>]
    ELSE [c EXCEPT !.pc = "store",
                   !.trace = Append(@, "seL4_IRQControl_Get")]

\* Lines 307-309: the store and the return of the handler.
get_irq_handler_store_step(c) ==
    [c EXCEPT !.pc = "done", !.val = c.slot, !.trace = Append(@, "chash_set")]

get_irq_handler_lookup(t) ==
    /\ thr[t].pc = "idle"
    /\ \E irq \in IRQs :
          thr' = [thr EXCEPT ![t] =
                     [get_irq_handler_lookup_step(@, irq)
                         EXCEPT !.miss = irqHandlerList[irq] = 0]]
    /\ UNCHANGED <<capVars, frameVars, archArm, ret, boot,
                   unblockClientFaultPID, procServ_faketime>>

get_irq_handler_alloc(t) ==
    /\ thr[t].pc = "alloc"
    /\ \E slot \in AllocOutcomes(vkaSlots) :
          /\ thr' = [thr EXCEPT ![t] = get_irq_handler_alloc_step(@, slot)]
          /\ vkaSlots' = IF thr'[t].slot # 0 THEN vkaSlots \cup {thr'[t].slot}
                         ELSE vkaSlots
    /\ UNCHANGED <<cspace, callerHeld, irqHandlerList, frameVars, archArm,
                   ret, boot, unblockClientFaultPID, procServ_faketime>>

get_irq_handler_request(t) ==
    /\ thr[t].pc = "request"
    /\ \E irqErr \in BOOLEAN :
          /\ thr' = [thr EXCEPT ![t] = get_irq_handler_request_step(@, irqErr)]
          /\ vkaSlots' =
                IF irqErr
                THEN get_irq_handler_request_failed(vkaSlots, thr[t].slot).vka
                ELSE vkaSlots
          /\ cspace' =
                IF irqErr THEN cspace
                ELSE [cspace EXCEPT ![thr[t].slot] = IrqCap(thr[t].irq)]
    /\ UNCHANGED <<callerHeld, irqHandlerList, frameVars, archArm, ret, boot,
                   unblockClientFaultPID, procServ_faketime>>

get_irq_handler_store(t) ==
    /\ thr[t].pc = "store"
    /\ thr' = [thr EXCEPT ![t] = get_irq_handler_store_step(@)]
    /\ irqHandlerList' = StoreHandler(thr[t].irq, thr[t].slot)
    /\ UNCHANGED <<vkaSlots, cspace, callerHeld, frameVars, archArm, ret,
                   boot, unblockClientFaultPID, procServ_faketime>>

\* The call returns to its caller.
get_irq_handler_return(t) ==
    /\ thr[t].pc = "done"
    /\ ret' = Ret("get_irq_handler", <<thr[t].irq>>, thr[t].val, "none",
                  thr[t].trace)
    /\ thr' = [thr EXCEPT ![t] = IdleCall]
    /\ UNCHANGED <<capVars, frameVars, archArm, boot, unblockClientFaultPID,
                   procServ_faketime>>

NextIrqRace ==
    \/ \E t \in Threads : get_irq_handler_lookup(t)
    \/ \E t \in Threads : get_irq_handler_alloc(t)
    \/ \E t \in Threads : get_irq_handler_request(t)
    \/ \E t \in Threads : get_irq_handler_store(t)
    \/ \E t \in Threads : get_irq_handler_return(t)

\* Calls of get_irq_handler without run-to-completion dispatch.
SpecIrqRace == Init /\ [][NextIrqRace]_vars

NextMisc ==
    \/ faketime
    \/ flush_frames

\* initialise(), then calls of faketime and procserv_flush.
NextBoot ==
    \/ BootStep
    \/ faketime
    \/ flush_frames

SpecBoot == BootInit /\ [][NextBoot]_vars

Next ==
    \/ NextCaps
    \/ NextFrames
    \/ NextMisc

Spec == Init /\ [][Next]_vars

(* ------------------------------ claims --------------------------------- *)

CapOps == {"mint_badge", "find_device", "get_irq_handler"}

FrameOps == {"frame_write", "frame_read"}

BootSlots == {endpoint, IPCCapRecv}

\* The slots the IRQ cache holds.
CachedSlots == {irqHandlerList[i] : i \in IRQs} \ {0}

\* The slots some caller or the IRQ cache holds.
HandedOut == callerHeld \cup CachedSlots

Allocs(trace) == Count(trace, "vka_cspace_alloc_path")

IrqRequests(trace) == Count(trace, "seL4_IRQControl_Get")

FailedCapCall == ret.op \in CapOps /\ ret.val = 0

\* Every allocated slot is a boot slot, held by a caller or in the IRQ cache.
Accounted == vkaSlots = BootSlots \cup HandedOut

\* C1: a mint_badge, find_device or get_irq_handler call that returns the
\* failure sentinel leaves the set of allocated slots as it was before the
\* call, and no slot is allocated that is neither held by a caller nor stored
\* in the IRQ cache.
C1_FailureLeaksNoSlot ==
    [][FailedCapCall' => (vkaSlots' = vkaSlots /\ Accounted')]_vars

\* A mint failed after its slot was allocated, while a caller holds a slot.
C1_Witness ==
    /\ ret.op = "mint_badge"
    /\ ret.env.slot # 0
    /\ ret.env.err
    /\ ret.val = 0
    /\ callerHeld # {}

\* C2: when a frame transfer has returned, whatever its outcome, no temporary
\* mapping exists in the server's address space.
C2_NoMappingAfterReturn == ~faulted => vspaceMapped = {}

\* A write of zero length mapped the frame and returned.
C2_Witness ==
    /\ ret.op = "frame_write"
    /\ ret.val = "ESUCCESS"
    /\ ret.args[3] = 0
    /\ Count(ret.trace, "vspace_map_pages") = 1
    /\ vspaceMapped = {}

\* C3: a frame transfer whose offset + len, as a true sum, exceeds the page
\* size returns InvalidParameter and neither maps nor copies.
C3_SumBeyondPageRejected ==
    (ret.op \in FrameOps /\ ret.args[3] + ret.args[4] > REFOS_PAGE_SIZE)
        => /\ ret.val = "EINVALIDPARAM"
           /\ Count(ret.trace, "vspace_map_pages") = 0
           /\ Count(ret.trace, "memcpy") = 0

\* C4: get_irq_handler(irq) called again after a call that made the handler
\* returns the same handle; the two calls together allocate one slot and
\* request one handler from the kernel, and a call that finds the handler in
\* the cache allocates nothing.
C4_SecondCallSameHandle ==
    [][/\ (/\ ret.op = "get_irq_handler"
           /\ ret.val # 0
           /\ Allocs(ret.trace) = 1
           /\ ret'.op = "get_irq_handler"
           /\ ret'.args = ret.args)
          => /\ ret'.val = ret.val
             /\ Allocs(ret.trace) + Allocs(ret'.trace) = 1
             /\ IrqRequests(ret.trace) + IrqRequests(ret'.trace) = 1
             /\ vkaSlots' = vkaSlots
       /\ (/\ ret'.op = "get_irq_handler"
           /\ irqHandlerList[ret'.args[1]] # 0)
          => /\ ret'.val = irqHandlerList[ret'.args[1]]
             /\ Allocs(ret'.trace) = 0
             /\ IrqRequests(ret'.trace) = 0
             /\ vkaSlots' = vkaSlots]_vars

\* A call found the handler of its line in the cache.
C4_Witness ==
    /\ ret.op = "get_irq_handler"
    /\ ret.val # 0
    /\ ret.trace = <<"chash_get">>
    /\ ret.val = irqHandlerList[ret.args[1]]

\* The slots that hold a handler capability of line irq.
HandlerSlots(irq) ==
    {s \in Slots : cspace[s].t = "irq" /\ cspace[s].irq = irq}

AtMostOneHandlerPerLine == \A i \in IRQs : Cardinality(HandlerSlots(i)) <= 1

\* C5: at most one slot holds a handler capability of each IRQ line, and an
\* entry of the IRQ cache is never removed or changed by a later operation.
C5_OneHandlerNeverEvicted ==
    [][/\ AtMostOneHandlerPerLine'
       /\ \A i \in IRQs :
             irqHandlerList[i] # 0 => irqHandlerList'[i] = irqHandlerList[i]]_vars

\* Both lines have a handler, and a later operation of another kind has run.
C5_Witness ==
    /\ \A i \in IRQs : irqHandlerList[i] # 0 /\ HandlerSlots(i) = {irqHandlerList[i]}
    /\ ret.op = "mint_badge"

\* C6: a get_irq_handler(irq) that finds no cached handler and fails at the
\* slot allocation or at the kernel request returns 0, leaves the allocated
\* slots as they were and the cache without an entry for irq; one whose steps
\* succeed returns a non-zero handle, allocated and stored in the cache.
C6_FailedRequestLeavesNoEntry ==
    [][(ret'.op = "get_irq_handler" /\ irqHandlerList[ret'.args[1]] = 0)
          => /\ (ret'.env.slot = 0 \/ ret'.env.err)
                   => /\ ret'.val = 0
                      /\ vkaSlots' = vkaSlots
                      /\ irqHandlerList'[ret'.args[1]] = 0
             /\ (ret'.env.slot # 0 /\ ~ret'.env.err)
                   => /\ ret'.val # 0
                      /\ ret'.val \in vkaSlots'
                      /\ irqHandlerList'[ret'.args[1]] = ret'.val]_vars

\* The kernel request failed after the slot was allocated.
C6_Witness ==
    /\ ret.op = "get_irq_handler"
    /\ ret.env.slot # 0
    /\ ret.env.err
    /\ ret.val = 0
    /\ irqHandlerList[ret.args[1]] = 0
    /\ ret.env.slot \notin vkaSlots

IsPowerOfTwo(size) == \E i \in 0 .. INT_BITS - 2 : 2 ^ i = size

\* C7: for every int size that is not a power of two, find_device returns the
\* empty path, allocates no slot and performs no device lookup.
C7_NonPowerOfTwoRejected ==
    (ret.op = "find_device" /\ ~IsPowerOfTwo(ret.args[2]))
        => ret.val = 0 /\ ret.trace = <<>>

\* C8: a slot returned by a successful mint_badge, find_device or first-time
\* get_irq_handler is none of the slots handed out and not yet freed; no such
\* call frees a slot a caller or the IRQ cache holds; two successive
\* successful mint_badge calls return different slots.
C8_HandedOutSlotsDistinct ==
    [][/\ (ret'.op \in CapOps /\ ret'.val # 0 /\ Allocs(ret'.trace) = 1)
          => ret'.val \notin HandedOut \cup BootSlots
       /\ ret'.op \in CapOps => HandedOut \subseteq vkaSlots'
       /\ HandedOut' \subseteq vkaSlots'
       /\ callerHeld' \cap CachedSlots' = {}
       /\ (/\ ret.op = "mint_badge" /\ ret.val # 0
           /\ ret'.op = "mint_badge" /\ ret'.val # 0)
          => ret'.val # ret.val]_vars

\* Callers hold two minted slots, and a mint has just succeeded.
C8_Witness ==
    /\ ret.op = "mint_badge"
    /\ ret.val # 0
    /\ Cardinality(callerHeld) = 2
    /\ \A s \in callerHeld : cspace[s].t = "endpoint"

\* C9: for offset + len within the page, a successful write followed by a
\* successful read of the same frame, offset and len leaves in dst the data
\* written, and the write leaves the bytes outside [offset, offset+len) as
\* they were.
C9_RoundTrip ==
    [][/\ (/\ ret.op = "frame_write" /\ ret.val = "ESUCCESS"
           /\ InPage(ret.args[3], ret.args[4])
           /\ ret'.op = "frame_read" /\ ret'.val = "ESUCCESS"
           /\ ret'.args[1] = ret.args[1]
           /\ ret'.args[3] = ret.args[3]
           /\ ret'.args[4] = ret.args[4])
          => ret'.dst = SrcData(ret.args[2], ret.args[3])
       /\ (/\ ret'.op = "frame_write" /\ ret'.val = "ESUCCESS"
           /\ InPage(ret'.args[3], ret'.args[4]))
          => \A i \in 0 .. REFOS_PAGE_SIZE - 1 :
                (i < ret'.args[4] \/ i >= ret'.args[4] + ret'.args[3])
                   => frameMem'[ret'.args[1]][i] = frameMem[ret'.args[1]][i]]_vars

\* Two bytes written at offset 1 were read back.
C9_Witness ==
    /\ ret.op = "frame_read"
    /\ ret.val = "ESUCCESS"
    /\ ret.args[4] = 1
    /\ ret.dst = <<1, 0>>

\* C10: when the temporary mapping fails, the transfer returns ENOMEM, the
\* frame contents and the destination buffer are unchanged, the only call
\* issued is the mapping attempt (no cache synchronization, no unmap) and no
\* mapping exists afterwards.
C10_MapFailureChangesNothing ==
    [][(ret'.op \in FrameOps /\ ret'.env.mapErr)
          => /\ ret'.val = "ENOMEM"
             /\ frameMem' = frameMem
             /\ ret'.dst = <<>>
             /\ ret'.trace = <<"vspace_map_pages">>
             /\ vspaceMapped' = {}]_vars

\* The mapping of a frame that holds written data failed in a read.
C10_Witness ==
    /\ ret.op = "frame_read"
    /\ ret.args[1] # 0
    /\ ret.env.mapErr
    /\ ret.args[3] > 0
    /\ \E i \in 0 .. REFOS_PAGE_SIZE - 1 : frameMem[ret.args[1]][i] = 1

\* C11: a successful mint_badge(badge) returns a slot that was free before the
\* call and now holds a capability derived from the main endpoint, with the
\* rights grant and write and no other, and with the badge of the call; a
\* call whose allocation or mint failed returns the empty path and leaves the
\* allocator as it was, the mint failure after freeing the slot it had taken.
C11_MintResult ==
    [][ret'.op = "mint_badge" =>
         LET slot == ret'.env.slot
             failedCall == slot = 0 \/ ret'.env.err
         IN  /\ ~failedCall =>
                  /\ ret'.val = slot
                  /\ slot \notin vkaSlots
                  /\ slot \in vkaSlots'
                  /\ cspace'[slot].t = "endpoint"
                  /\ cspace'[slot].src = endpoint
                  /\ cspace'[slot].rights = {"grant", "write"}
                  /\ cspace'[slot].badge = ret'.args[1]
             /\ failedCall =>
                  /\ ret'.val = 0
                  /\ vkaSlots' = vkaSlots
                  /\ cspace' = cspace
             /\ ret'.env.err =>
                  /\ Count(ret'.trace, "vka_cspace_free") = 1
                  /\ slot \notin vkaSlots']_vars

\* A mint with badge 8 has succeeded, after an earlier one with badge 7.
C11_Witness ==
    /\ ret.op = "mint_badge"
    /\ ret.val # 0
    /\ ~ret.env.err
    /\ cspace[ret.val] = EpCap(8)
    /\ \E s \in callerHeld \ {ret.val} : cspace[s] = EpCap(7)

\* The boot steps the specification names, in the order it gives them:
\* allocator bootstrap, address-space bootstrap, console, main endpoint,
\* receive slot, external modules, IRQ cache.
NamedBootSteps ==
    <<"bootstrap_use_bootinfo", "sel4utils_bootstrap_vspace",
      "platsupport_serial_setup_simple", "vka_alloc_endpoint",
      "vka_cspace_alloc_path", "initialise_modules", "chash_init">>

\* How often, and where first, a step occurs among the completed ones.
TimesRun(step) == Count(boot.log, step)

FirstRun(step) ==
    IF TimesRun(step) = 0 THEN 0
    ELSE CHOOSE i \in DOMAIN boot.log :
            /\ boot.log[i] = step
            /\ \A j \in 1 .. i - 1 : boot.log[j] # step

\* C12: boot runs each of its steps at most once, and a step has completed
\* only after the one the specification names before it: allocator bootstrap,
\* address-space bootstrap, console, main endpoint, receive slot, modules,
\* IRQ cache; once boot is over every one of them has run exactly once and
\* the fault-blocked-client field holds the empty sentinel.
C12_BootOrder ==
    /\ \A k \in DOMAIN NamedBootSteps : TimesRun(NamedBootSteps[k]) <= 1
    /\ \A k \in 2 .. Len(NamedBootSteps) :
          TimesRun(NamedBootSteps[k]) = 1 =>
             /\ TimesRun(NamedBootSteps[k - 1]) = 1
             /\ FirstRun(NamedBootSteps[k - 1]) < FirstRun(NamedBootSteps[k])
    /\ boot.pc = "running" =>
          /\ \A k \in DOMAIN NamedBootSteps : TimesRun(NamedBootSteps[k]) = 1
          /\ unblockClientFaultPID = "PID_NULL"

\* Boot is over and the server has answered a call.
C12_Witness ==
    /\ boot.pc = "running"
    /\ boot.failed = "none"
    /\ Len(boot.log) = Len(BootOrder)
    /\ ret.op = "faketime"

\* The steps of the boot sequence after the virtual-pool reservation.
AfterReservation ==
    {BootOrder[k] : k \in DOMAIN BootOrder} \ 
    {"memset", "bootstrap_use_bootinfo", "allocman_make_vka",
     "sel4utils_bootstrap_vspace", "vspace_reserve_range"}

\* The state boot leaves for the primitives is the one they start from.
BootEndsInInit ==
    (boot.pc = "running" /\ ret.op = "initialise") =>
        /\ boot.log = BootOrder
        /\ vkaSlots = BootSlots
        /\ cspace = [s \in Slots |->
                        IF s = endpoint THEN [t |-> "endpoint_object"]
                        ELSE NoCap]
        /\ irqHandlerList = [i \in IRQs |-> 0]
        /\ procServ_faketime = 0

C14_FaketimeStrictlyIncreasing ==
    [][ret'.op = "faketime" =>
         /\ procServ_faketime' > ret'.val
         /\ ret.op = "faketime" => ret'.val > ret.val]_vars

\* C15: free_cap(cap) with a non-null cap deletes the capability in that slot
\* and then returns the slot to the allocator, these two calls and no other,
\* so no revoke, and touches no other slot; with a null cap it issues no call
\* and changes nothing.
C15_FreeCapDeletesThenFrees ==
    [][ret'.op = "free_cap" =>
         LET cap == ret'.args[1] IN
         IF cap # 0
         THEN /\ ret'.trace = <<"vka_cnode_delete", "vka_cspace_free">>
              /\ Count(ret'.trace, "vka_cnode_revoke") = 0
              /\ cspace[cap] # NoCap
              /\ cspace' = [cspace EXCEPT ![cap] = NoCap]
              /\ cap \in vkaSlots
              /\ vkaSlots' = vkaSlots \ {cap}
              /\ irqHandlerList' = irqHandlerList
         ELSE /\ ret'.trace = <<>>
              /\ UNCHANGED <<vkaSlots, cspace, callerHeld, irqHandlerList>>]_vars

\* A minted capability was released while a caller holds another one.
C15_Witness ==
    /\ ret.op = "free_cap"
    /\ ret.args[1] # 0
    /\ cspace[ret.args[1]] = NoCap
    /\ ret.args[1] \notin vkaSlots
    /\ \E s \in callerHeld : cspace[s] # NoCap

\* The entries of value f among the first n of a list.
EntriesOf(list, n, f) == {i \in 1 .. n : i <= Len(list) /\ list[i] = f}

\* C16: flush_frames(frames, count) returns without a fault for a null list,
\* an empty list and lists with null entries.  On ARM it unifies the
\* instruction cache over the whole page, offsets 0 to the page size, once
\* for each non-null entry among the first count and for nothing else; for a
\* null list and on a coherent architecture it issues no cache operation.
C16_FlushSkipsNulls ==
    ret.op = "flush_frames" =>
        LET frame == ret.args[1]
            n == ret.args[2]
            ops == ret.val
        IN  /\ ~faulted
            /\ boot.pc = "running"
            /\ (~archArm \/ frame.null) => ops = <<>>
            /\ \A k \in DOMAIN ops :
                  /\ ops[k].frame # 0
                  /\ ops[k].start = 0
                  /\ ops[k].end = REFOS_PAGE_SIZE
            /\ (archArm /\ ~frame.null) =>
                  \A f \in Frames :
                     Cardinality({k \in DOMAIN ops : ops[k].frame = f})
                        = Cardinality(EntriesOf(frame.at, n, f))
            /\ Count(ret.trace, "seL4_ARM_Page_Unify_Instruction") = Len(ops)

\* On ARM, a list with a null entry before a frame was flushed.
C16_Witness ==
    /\ archArm
    /\ ret.op = "flush_frames"
    /\ ~ret.args[1].null
    /\ ret.args[1].at = <<0, 5>>
    /\ ret.args[2] = 2
    /\ Len(ret.val) = 1

\* The cache synchronisation of one frame as the trace shows it: the call of
\* flush_frames and, on ARM, the kernel's unify operation.
SyncCalls ==
    IF archArm THEN <<"procserv_flush", "seL4_ARM_Page_Unify_Instruction">>
    ELSE <<"procserv_flush">>

\* C17: a transfer that succeeds has issued, in this order and nothing else,
\* for a write: map, copy, cache synchronisation, unmap; for a read: map,
\* cache synchronisation, copy, unmap.  This holds for every length, zero
\* included: the unmap is always the last call.
C17_TransferStepOrder ==
    (ret.op \in FrameOps /\ ret.val = "ESUCCESS") =>
        /\ ret.op = "frame_write" =>
              ret.trace = <<"vspace_map_pages", "memcpy">> \o SyncCalls
                              \o <<"vspace_unmap_pages">>
        /\ ret.op = "frame_read" =>
              ret.trace = <<"vspace_map_pages">> \o SyncCalls
                              \o <<"memcpy", "vspace_unmap_pages">>
        /\ ret.trace[Len(ret.trace)] = "vspace_unmap_pages"
        /\ vspaceMapped = {}

\* On ARM a read of length zero succeeded, after a write had filled the frame.
C17_Witness ==
    /\ archArm
    /\ ret.op = "frame_read"
    /\ ret.val = "ESUCCESS"
    /\ ret.args[3] = 0
    /\ Count(ret.trace, "vspace_unmap_pages") = 1
    /\ \E f \in Frames : frameMem[f][0] # 0

\* The primitives callers invoke after boot.
Primitives ==
    {"mint_badge", "frame_write", "frame_read", "find_device", "flush_frames",
     "get_irq_handler"}

\* C18: after boot, every call of mint_badge, write_frame, read_frame,
\* find_device, flush_frames and get_irq_handler has returned to its caller,
\* with a result or a failure sentinel, whatever the allocator, the mapping,
\* the mint, the device lookup and the kernel answered; the server is never
\* in the fatal state and its thread has never faulted.
C18_EveryCallReturns ==
    (boot.pc # "running" \/ ret.op \in Primitives) =>
        /\ boot.pc = "running"
        /\ ~faulted
        /\ ret.err # "fault"

\* The call of thread t found no handler in the cache and has passed the
\* statements up to and including those of pcs.
MissedAndAt(t, pcs) == thr[t].miss /\ thr[t].pc \in pcs

\* The kernel has granted the request of thread t's call.
Granted(t) ==
    MissedAndAt(t, {"store", "done"}) /\ (thr[t].pc = "done" => thr[t].val # 0)

\* C19: get_irq_handler holds no lock and looks into the cache once, before
\* it allocates: a call that found no handler goes on to allocate a slot and,
\* given one, to request the handler from the kernel, whatever another call
\* has stored since.  Two interleaved calls for the same uncached line thus
\* both allocate and both request, and when the kernel grants both, two
\* slots hold a handler of that line.
C19_InterleavedCallsBothRequest ==
    /\ \A t \in Threads :
          /\ thr[t].pc # "idle" => Count(thr[t].trace, "chash_get") = 1
          /\ MissedAndAt(t, {"request", "store", "done"}) =>
                Allocs(thr[t].trace) = 1
          /\ (MissedAndAt(t, {"store", "done"}) /\ thr[t].slot # 0) =>
                IrqRequests(thr[t].trace) = 1
    /\ \A t, u \in Threads :
          (t # u /\ thr[t].irq = thr[u].irq /\ Granted(t) /\ Granted(u)) =>
              /\ thr[t].slot # thr[u].slot
              /\ {thr[t].slot, thr[u].slot} \subseteq HandlerSlots(thr[t].irq)
              /\ ~AtMostOneHandlerPerLine

\* Two calls for the same line both found the cache empty; one has stored
\* its handler, and the other has requested one from the kernel all the same.
C19_Witness ==
    /\ thr[1].irq = thr[2].irq
    /\ thr[1].miss /\ thr[2].miss
    /\ thr[1].pc = "done" /\ thr[1].val # 0
    /\ irqHandlerList[thr[1].irq] = thr[1].val
    /\ thr[2].pc \in {"store", "done"}
    /\ IrqRequests(thr[1].trace) = 1
    /\ IrqRequests(thr[2].trace) = 1

\* C20: every handle in the IRQ cache is non-zero and names a slot that is
\* allocated and holds the handler of its line; an entry appears only in a
\* get_irq_handler call whose kernel request succeeded, as the slot that call
\* allocated; and no operation frees a slot the cache holds.
C20_CachedHandlesAllocated ==
    [][/\ \A i \in IRQs :
             irqHandlerList'[i] # 0 =>
                /\ irqHandlerList'[i] \in vkaSlots'
                /\ cspace'[irqHandlerList'[i]] = IrqCap(i)
       /\ \A i \in IRQs :
             irqHandlerList'[i] # irqHandlerList[i] =>
                /\ ret'.op = "get_irq_handler"
                /\ ret'.args[1] = i
                /\ ret'.env.slot # 0
                /\ ~ret'.env.err
                /\ irqHandlerList'[i] = ret'.env.slot
                /\ IrqRequests(ret'.trace) = 1
       /\ CachedSlots \subseteq vkaSlots']_vars

\* Line 0 is cached, after a caller's slot was freed; the request for line 1
\* has just failed, leaving no entry for it.
C20_Witness ==
    /\ irqHandlerList[0] = NumSlots
    /\ irqHandlerList[0] \in vkaSlots
    /\ callerHeld = {}
    /\ ret.op = "get_irq_handler"
    /\ ret.args[1] = 1
    /\ ret.env.err
    /\ irqHandlerList[1] = 0

====
